---- MODULE Spec2Model ----
(***************************************************************************)
(* Remote-browser streaming server: the browser pool (browserService),     *)
(* the socket router (socketService), the stream engine (streamingService),*)
(* the session binder (sessionService) and the rate limiter                *)
(* (securityService).                                                      *)
(*                                                                         *)
(* Node.js runs every handler to its next await in one piece, so an action *)
(* is one such run: from the arrival of a message, a timer or a promise    *)
(* resolution up to the next suspension.                                   *)
(*                                                                         *)
(* The specifications share the clock `now`:                               *)
(*   SpecPool      pool + router, two sockets, overlapping handlers        *)
(*   SpecPoolFair  SpecPool with a reaper that keeps firing                *)
(*   SpecRouter    the navigate, action and resize handlers and their acks *)
(*   SpecActions   action handlers suspended in their page calls           *)
(*   SpecStream    one socket's stream state and producer loops            *)
(*   SpecControl   pause and resume                                        *)
(*   SpecKeyframe  the keyframe cadence of a long-running loop             *)
(*   SpecLatency   latency reports on an adaptive stream                   *)
(*   SpecListeners repeated inits, then latency reports and stream-control *)
(*   SpecCodec     compressBase64 and decompressBase64                     *)
(*   SpecSession   the session store and its token index                   *)
(*   SpecSecurity  checkRateLimit and the IP block list                    *)
(***************************************************************************)
EXTENDS Integers, Sequences, FiniteSets

VARIABLES
  now,               \* Date.now(), in ms
  ticks,             \* how often the clock has advanced (bounded)
  \* ---- browserService / socketService
  activeBrowsers,    \* Map id -> BrowserInstance (lastActivity)
  nextUuid,          \* uuidv4(): the next fresh browser id
  socketBrowserMap,  \* Map socket.id -> browserId (0: no entry)
  connected,         \* socket -> has not yet disconnected
  calls,             \* the init handlers, each with its createBrowser call
  disc,              \* socket -> the disconnect handler's position
  reaping,           \* ids whose closeBrowser, started by the reaper, is in flight
  initAcks,          \* socket -> browserIds sent in {success:true} init acks
  createdFor,        \* socket -> browserIds created by that socket's init handlers
  poolLoops,         \* producer loops as the pool sees them: [socket, browserId]
  \* ---- streamingService (one socket)
  heap,              \* the settings objects created by initializeStream
  clientStreams,     \* clientStreams.get(socket.id): index into heap, 0: none
  loops,             \* the producer loops started by startStreamLoop
  listeners,         \* how many times setupStreamListeners has registered
  mapped,            \* the router has a browser for this socket
  pending,           \* init handlers awaiting createBrowser (their data)
  online,            \* the socket has not yet disconnected
  msgs,              \* messages received from the client (bounded)
  lastFrame,         \* the frame message emitted last
  prevTimestamp,     \* timestamp of the frame emitted before it
  settingsPending,   \* a stream-settings was handled since the last frame
  resumed,           \* a resume was handled and no frame has been emitted since
  lastAck,           \* the message handled last, and how often its callback ran
  initAcked,         \* an init was acknowledged with {success:true}
  \* ---- sessionService
  sessions,          \* Map id -> Session
  tokenToSessionMap, \* Map token -> id
  nextSessionUuid,   \* uuidv4(): the next fresh session id / token
  ret,               \* what the last sessionService call did and returned
  \* ---- utils/compression
  codec,             \* one payload on its way through compressBase64 / decompressBase64
  \* ---- socketService acks
  lastReply,         \* the ack sent last by the navigate, action or resize handler
  \* ---- the action handlers of socketService, with their awaits
  received,          \* socket -> how many action messages have arrived
  issued,            \* socket -> the page calls made for it: [n, browserId], in order
  executing,         \* the action handlers awaiting their page call: [socket, n]
  \* ---- securityService
  rateLimits,        \* Map ip -> RateLimitEntry (count, firstRequest)
  blockedIPs,        \* Map ip -> IPBlockEntry (blockedAt, expiresAt)
  ipBlockingEnabled, \* settings.ipBlocking.enabled
  lastCheck,         \* ip -> what its last checkRateLimit returned, and when
  limitedAt          \* ip -> when checkRateLimit last recorded a block (-1: none
                     \* since the last unblockIP)

poolVars == <<activeBrowsers, nextUuid, socketBrowserMap, connected, calls, disc,
              reaping, initAcks, createdFor, poolLoops>>
streamVars == <<heap, clientStreams, loops, listeners, mapped, pending, online,
                msgs, lastFrame, prevTimestamp, settingsPending, resumed, lastAck,
                initAcked>>
sessionVars == <<sessions, tokenToSessionMap, nextSessionUuid, ret>>
codecVars == <<codec>>
routerVars == <<lastReply>>
actionVars == <<received, issued, executing>>
securityVars == <<rateLimits, blockedIPs, ipBlockingEnabled, lastCheck, limitedAt>>
vars == <<now, ticks, poolVars, streamVars, sessionVars, codecVars, routerVars, actionVars, securityVars>>

Max(a, b) == IF a >= b THEN a ELSE b
Min(a, b) == IF a <= b THEN a ELSE b

(***************************************************************************)
(* Bounds of the model                                                     *)
(***************************************************************************)
NumSockets == 2
MaxCalls == 3
PoolMaxTicks == 2

(***************************************************************************)
(* browserService.ts                                                       *)
(***************************************************************************)
\* process.env.MAX_BROWSERS; the value of the specification's LRU scenario
MAX_BROWSERS == 2
BROWSER_TIMEOUT == 900000

\* Urls are numbered: the initial url of createBrowser, and the two urls
\* navigate messages ask for.
DEFAULT_URL == 0
UrlInputs == {1, 2}

Sockets == 1..NumSockets
CallIds == 1..MaxCalls
\* uuidv4() is drawn once per createBrowser call that gets through its launch.
BrowserIds == 1..MaxCalls
NoCall == [pc |-> "free", socket |-> 0, oldestId |-> 0, wasFull |-> FALSE, lru |-> {}]
NoDisc == [pc |-> "none", browserId |-> 0]

\* The clock advances by 1 ms or past the idle timeout.
PoolTickSteps == {1, BROWSER_TIMEOUT}

InitPoolVars ==
  /\ activeBrowsers = <<>>
  /\ nextUuid = 1
  /\ socketBrowserMap = [s \in Sockets |-> 0]
  /\ connected = [s \in Sockets |-> TRUE]
  /\ calls = [c \in CallIds |-> NoCall]
  /\ disc = [s \in Sockets |-> NoDisc]
  /\ reaping = {}
  /\ initAcks = [s \in Sockets |-> {}]
  /\ createdFor = [s \in Sockets |-> {}]
  /\ poolLoops = {}

\* activeBrowsers.delete(id)
MapDelete(m, id) == [k \in (DOMAIN m) \ {id} |-> m[k]]

\* activeBrowsers.set(id, instance)
MapSet(m, id, v) == [k \in (DOMAIN m) \cup {id} |-> IF k = id THEN v ELSE m[k]]

\* instance.lastActivity = Date.now(), when the instance is in the map
Touch(m, id, t) ==
  IF id \in DOMAIN m THEN [m EXCEPT ![id].lastActivity = t] ELSE m

\* The for-loop of createBrowser over activeBrowsers.entries(): ids are handed
\* out in increasing order, which is the Map's insertion order.
RECURSIVE OldestFrom(_, _, _, _)
OldestFrom(m, id, oldestId, oldestTimestamp) ==
  IF id >= nextUuid THEN oldestId
  ELSE IF id \in DOMAIN m /\ m[id].lastActivity < oldestTimestamp
       THEN OldestFrom(m, id + 1, id, m[id].lastActivity)
       ELSE OldestFrom(m, id + 1, oldestId, oldestTimestamp)

\* let oldestId = ''; let oldestTimestamp = Date.now(); for (...) ...
OldestId(m, t) == OldestFrom(m, 1, 0, t)

\* The instances no other instance is older than (recorded with each
\* createBrowser call, for the eviction claim)
LeastRecent(m) ==
  {i \in DOMAIN m : \A j \in DOMAIN m : m[i].lastActivity <= m[j].lastActivity}

\* initializeStream as the pool sees it: a producer loop that snapshots
\* browserId for this socket.
PoolInitializeStream(s, b) == poolLoops' = poolLoops \cup {[socket |-> s, browserId |-> b]}

\* socket.on('init'): up to the await of createBrowser, or through to the end
\* when the socket already has a browser.
InitMsg(s, c) ==
  /\ connected[s]
  /\ calls[c].pc = "free"
  /\ \A d \in CallIds : d < c => calls[d].pc # "free"
  /\ IF socketBrowserMap[s] # 0
     THEN /\ initAcks' = [initAcks EXCEPT ![s] = @ \cup {socketBrowserMap[s]}]
          /\ PoolInitializeStream(s, socketBrowserMap[s])
          /\ calls' = [calls EXCEPT ![c] = [NoCall EXCEPT !.pc = "done", !.socket = s]]
          /\ activeBrowsers' = Touch(activeBrowsers, socketBrowserMap[s], now)
     ELSE LET full == Cardinality(DOMAIN activeBrowsers) >= MAX_BROWSERS
              oldest == IF full THEN OldestId(activeBrowsers, now) ELSE 0
          IN /\ calls' = [calls EXCEPT ![c] =
                  [pc |-> IF oldest # 0 THEN "evict" ELSE "launch",
                   socket |-> s, oldestId |-> oldest, wasFull |-> full,
                   lru |-> LeastRecent(activeBrowsers)]]
             /\ UNCHANGED <<initAcks, poolLoops, activeBrowsers>>
  /\ UNCHANGED <<now, ticks, nextUuid, socketBrowserMap, connected, disc, reaping,
                 createdFor, streamVars, sessionVars, codecVars, routerVars, actionVars, securityVars>>

\* createBrowser: await closeBrowser(oldestId) returns; the record is deleted
\* on both paths of closeBrowser.
EvictDone(c) ==
  /\ calls[c].pc = "evict"
  /\ activeBrowsers' = MapDelete(activeBrowsers, calls[c].oldestId)
  /\ calls' = [calls EXCEPT ![c].pc = "launch"]
  /\ UNCHANGED <<now, ticks, nextUuid, socketBrowserMap, connected, disc, reaping,
                 initAcks, createdFor, poolLoops, streamVars, sessionVars, codecVars, routerVars, actionVars, securityVars>>

\* A createBrowser whose id is not a fresh one
LaunchDoneSameUuid(c) ==
  /\ calls[c].pc = "launch"
  /\ LET s == calls[c].socket
         id == 1
     IN /\ activeBrowsers' = MapSet(activeBrowsers, id, [lastActivity |-> now, url |-> DEFAULT_URL])
        /\ nextUuid' = Max(nextUuid, 2)
        /\ socketBrowserMap' = [socketBrowserMap EXCEPT ![s] = id]
        /\ initAcks' = [initAcks EXCEPT ![s] = @ \cup {id}]
        /\ createdFor' = [createdFor EXCEPT ![s] = @ \cup {id}]
        /\ PoolInitializeStream(s, id)
  /\ calls' = [calls EXCEPT ![c].pc = "done"]
  /\ UNCHANGED <<now, ticks, connected, disc, reaping, streamVars, sessionVars, codecVars, routerVars, actionVars, securityVars>>

\* createBrowser: launch, newContext, newPage and goto succeeded; the instance
\* is stored, and the init handler goes on to its end.
LaunchDone(c) ==
  /\ calls[c].pc = "launch"
  /\ LET s == calls[c].socket
         id == nextUuid
     IN /\ activeBrowsers' = MapSet(activeBrowsers, id, [lastActivity |-> now, url |-> DEFAULT_URL])
        /\ nextUuid' = nextUuid + 1
        /\ socketBrowserMap' = [socketBrowserMap EXCEPT ![s] = id]
        /\ initAcks' = [initAcks EXCEPT ![s] = @ \cup {id}]
        /\ createdFor' = [createdFor EXCEPT ![s] = @ \cup {id}]
        /\ PoolInitializeStream(s, id)
  /\ calls' = [calls EXCEPT ![c].pc = "done"]
  /\ UNCHANGED <<now, ticks, connected, disc, reaping, streamVars, sessionVars, codecVars, routerVars, actionVars, securityVars>>

\* createBrowser: launch or the initial navigation raised; createBrowser
\* rethrows and the init handler acks {success:false}.
LaunchFail(c) ==
  /\ calls[c].pc = "launch"
  /\ calls' = [calls EXCEPT ![c].pc = "failed"]
  /\ UNCHANGED <<now, ticks, activeBrowsers, nextUuid, socketBrowserMap, connected,
                 disc, reaping, initAcks, createdFor, poolLoops, streamVars,
                 sessionVars, codecVars, routerVars, actionVars, securityVars>>

\* The createBrowser call of init handler c ended in its catch, which logs and
\* then does `throw error`: the await in the init handler raised.
CreateBrowserRaised(c) == calls[c].pc = "failed"

\* socket.on('disconnect') of socketService, and the disconnect listeners of
\* streamingService, which stop the loops started so far.
Disconnect(s) ==
  /\ connected[s]
  /\ connected' = [connected EXCEPT ![s] = FALSE]
  /\ poolLoops' = {l \in poolLoops : l.socket # s}
  /\ LET b == socketBrowserMap[s]
     IN IF b = 0
        THEN /\ disc' = [disc EXCEPT ![s].pc = "done"]
             /\ UNCHANGED socketBrowserMap
        ELSE IF b \in DOMAIN activeBrowsers
        THEN /\ disc' = [disc EXCEPT ![s] = [pc |-> "closing", browserId |-> b]]
             /\ UNCHANGED socketBrowserMap
        ELSE /\ disc' = [disc EXCEPT ![s] = [pc |-> "done", browserId |-> b]]
             /\ socketBrowserMap' = [socketBrowserMap EXCEPT ![s] = 0]
  /\ UNCHANGED <<now, ticks, activeBrowsers, nextUuid, calls, reaping, initAcks,
                 createdFor, streamVars, sessionVars, codecVars, routerVars, actionVars, securityVars>>

\* A closeBrowser that returns without deleting the record
DisconnectDoneNoDelete(s) ==
  /\ disc[s].pc = "closing"
  /\ socketBrowserMap' = [socketBrowserMap EXCEPT ![s] = 0]
  /\ disc' = [disc EXCEPT ![s].pc = "done"]
  /\ UNCHANGED <<now, ticks, activeBrowsers, nextUuid, connected, calls, reaping,
                 initAcks, createdFor, poolLoops, streamVars, sessionVars, codecVars,
                 routerVars, actionVars, securityVars>>

\* The disconnect handler's await closeBrowser(browserId) returns.
DisconnectDone(s) ==
  /\ disc[s].pc = "closing"
  /\ activeBrowsers' = MapDelete(activeBrowsers, disc[s].browserId)
  /\ socketBrowserMap' = [socketBrowserMap EXCEPT ![s] = 0]
  /\ disc' = [disc EXCEPT ![s].pc = "done"]
  /\ UNCHANGED <<now, ticks, nextUuid, connected, calls, reaping, initAcks,
                 createdFor, poolLoops, streamVars, sessionVars, codecVars, routerVars, actionVars, securityVars>>

\* cleanupInactiveBrowsers: closeBrowser is started for every idle instance.
CleanupInactiveBrowsers ==
  /\ LET idle == {id \in DOMAIN activeBrowsers :
                    now - activeBrowsers[id].lastActivity > BROWSER_TIMEOUT}
     IN /\ idle # {}
        /\ reaping' = reaping \cup idle
  /\ UNCHANGED <<now, ticks, activeBrowsers, nextUuid, socketBrowserMap, connected,
                 calls, disc, initAcks, createdFor, poolLoops, streamVars,
                 sessionVars, codecVars, routerVars, actionVars, securityVars>>

\* closeBrowser with a catch that leaves the record in the map
ReapDoneNoDelete(id) ==
  /\ id \in reaping
  /\ reaping' = reaping \ {id}
  /\ UNCHANGED <<now, ticks, activeBrowsers, nextUuid, socketBrowserMap, connected,
                 calls, disc, initAcks, createdFor, poolLoops, streamVars, sessionVars, codecVars, routerVars, actionVars, securityVars>>

\* A closeBrowser started by the reaper returns.
ReapDone(id) ==
  /\ id \in reaping
  /\ reaping' = reaping \ {id}
  /\ activeBrowsers' = MapDelete(activeBrowsers, id)
  /\ UNCHANGED <<now, ticks, nextUuid, socketBrowserMap, connected, calls, disc,
                 initAcks, createdFor, poolLoops, streamVars, sessionVars, codecVars, routerVars, actionVars, securityVars>>

\* getScreenshot(id) called by a producer loop: lastActivity is refreshed.
GetScreenshot(l) ==
  /\ l \in poolLoops
  /\ l.browserId \in DOMAIN activeBrowsers
  /\ activeBrowsers[l.browserId].lastActivity # now
  /\ activeBrowsers' = Touch(activeBrowsers, l.browserId, now)
  /\ UNCHANGED <<now, ticks, nextUuid, socketBrowserMap, connected, calls, disc,
                 reaping, initAcks, createdFor, poolLoops, streamVars, sessionVars, codecVars, routerVars, actionVars, securityVars>>

\* The ack of the navigate, action and resize handlers: without a map entry
\* { success: false, error: 'No browser instance found' }, otherwise
\* { success } with what navigateTo, executeAction or resizeViewport returned:
\* false for an unknown instance or when the page operation raised (~ok).
RouterReply(msg, s, ok) ==
  IF socketBrowserMap[s] = 0 THEN [msg |-> msg, success |-> FALSE, error |-> TRUE]
  ELSE [msg |-> msg, success |-> socketBrowserMap[s] \in DOMAIN activeBrowsers /\ ok,
        error |-> FALSE]

NoReply == [msg |-> "none", success |-> TRUE, error |-> FALSE]

\* The url a socket's next navigate message asks for: another one than its
\* browser has
NavigateUrl(s) ==
  IF socketBrowserMap[s] \in DOMAIN activeBrowsers
     /\ activeBrowsers[socketBrowserMap[s]].url = 1
  THEN 2 ELSE 1

\* A navigateTo that records the url before page.goto
NavigateToUrlFirst(m, id, url, ok, t) ==
  IF id \in DOMAIN m
  THEN [m EXCEPT ![id] = [lastActivity |-> t, url |-> url]]
  ELSE m

\* navigateTo(id, url): false for an unknown instance; otherwise lastActivity
\* is refreshed, and instance.url is set once page.goto has returned (ok).

NavigateTo(m, id, url, ok, t) ==
  IF id \in DOMAIN m /\ ok
  THEN [m EXCEPT ![id] = [lastActivity |-> t, url |-> url]]
  ELSE Touch(m, id, t)

\* socket.on('navigate')
NavigateMsg(s, ok) ==
  /\ connected[s]
  /\ activeBrowsers' = NavigateTo(activeBrowsers, socketBrowserMap[s], NavigateUrl(s), ok, now)
  /\ lastReply' = RouterReply("navigate", s, ok)
  /\ UNCHANGED <<now, ticks, nextUuid, socketBrowserMap, connected, calls, disc,
                 reaping, initAcks, createdFor, poolLoops, streamVars, sessionVars,
                 codecVars, actionVars, securityVars>>

\* socket.on('action'): executeAction refreshes lastActivity before it acts.
ActionMsg(s, ok) ==
  /\ connected[s]
  /\ activeBrowsers' = Touch(activeBrowsers, socketBrowserMap[s], now)
  /\ lastReply' = RouterReply("action", s, ok)
  /\ UNCHANGED <<now, ticks, nextUuid, socketBrowserMap, connected, calls, disc,
                 reaping, initAcks, createdFor, poolLoops, streamVars, sessionVars,
                 codecVars, actionVars, securityVars>>

\* socket.on('resize'): resizeViewport leaves lastActivity alone.
ResizeMsg(s, ok) ==
  /\ connected[s]
  /\ lastReply' = RouterReply("resize", s, ok)
  /\ UNCHANGED <<now, ticks, poolVars, streamVars, sessionVars, codecVars, actionVars, securityVars>>

\* The action messages a socket sends (a bound of the model)
MaxActions == 2

InitActionVars ==
  /\ received = [s \in Sockets |-> 0]
  /\ issued = [s \in Sockets |-> <<>>]
  /\ executing = {}

\* socket.on('action') from the arrival of the socket's next message to the
\* handler's first suspension.  Without a map entry the handler acks and
\* returns; otherwise it calls executeAction, which returns false for an
\* unknown instance and otherwise refreshes lastActivity and makes the page
\* call of the action (mouse.click, keyboard.type, ...) before it awaits.
ExecuteActionCall(s) ==
  /\ connected[s]
  /\ received[s] < MaxActions
  /\ received' = [received EXCEPT ![s] = @ + 1]
  /\ LET b == socketBrowserMap[s]
         n == received[s] + 1
     IN IF b # 0 /\ b \in DOMAIN activeBrowsers
        THEN /\ activeBrowsers' = Touch(activeBrowsers, b, now)
             /\ issued' = [issued EXCEPT ![s] = Append(@, [n |-> n, browserId |-> b])]
             /\ executing' = executing \cup {[socket |-> s, n |-> n]}
        ELSE UNCHANGED <<activeBrowsers, issued, executing>>
  /\ UNCHANGED <<now, ticks, nextUuid, socketBrowserMap, connected, calls, disc,
                 reaping, initAcks, createdFor, poolLoops, streamVars, sessionVars,
                 codecVars, routerVars, securityVars>>

\* A handler that makes its page call once more when the first one raised
ExecuteActionReturnRetry(h, ok) ==
  /\ h \in executing
  /\ IF ok \/ socketBrowserMap[h.socket] = 0
     THEN /\ executing' = executing \ {h}
          /\ UNCHANGED issued
     ELSE /\ issued' = [issued EXCEPT ![h.socket] =
                          Append(@, [n |-> h.n, browserId |-> socketBrowserMap[h.socket]])]
          /\ executing' = executing \ {h}
  /\ UNCHANGED <<now, ticks, poolVars, received, streamVars, sessionVars, codecVars,
                 routerVars, securityVars>>

\* The page call of handler h returns or raises (executeAction returns true
\* or false), and the handler acks { success }.
ExecuteActionReturn(h, ok) ==
  /\ h \in executing
  /\ executing' = executing \ {h}
  /\ UNCHANGED <<now, ticks, poolVars, received, issued, streamVars, sessionVars,
                 codecVars, routerVars, securityVars>>

\* Date.now() advances.
PoolTick(d) ==
  /\ ticks < PoolMaxTicks
  /\ now' = now + d
  /\ ticks' = ticks + 1
  /\ UNCHANGED <<poolVars, streamVars, sessionVars, codecVars, routerVars, actionVars, securityVars>>

NextPool ==
  \/ \E s \in Sockets, c \in CallIds : InitMsg(s, c)
  \/ \E c \in CallIds : EvictDone(c)
  \/ \E c \in CallIds : LaunchDone(c)
  \/ \E c \in CallIds : LaunchFail(c)
  \/ \E s \in Sockets : Disconnect(s)
  \/ \E s \in Sockets : DisconnectDone(s)
  \/ CleanupInactiveBrowsers
  \/ \E id \in reaping : ReapDone(id)
  \/ \E l \in poolLoops : GetScreenshot(l)
  \/ \E d \in PoolTickSteps : PoolTick(d)

\* The router for clients that init, navigate, act, resize and leave; the
\* reaper and the producer loops are left to NextPool, and the clock
\* advances by single milliseconds, RouterMaxTicks times.
RouterMaxTicks == 1

NextRouter ==
  \/ \E s \in Sockets, c \in CallIds : InitMsg(s, c)
  \/ \E c \in CallIds : EvictDone(c)
  \/ \E c \in CallIds : LaunchDone(c)
  \/ \E c \in CallIds : LaunchFail(c)
  \/ \E s \in Sockets : Disconnect(s)
  \/ \E s \in Sockets : DisconnectDone(s)
  \/ ticks < RouterMaxTicks /\ PoolTick(1)
  \/ \E s \in Sockets, ok \in BOOLEAN : NavigateMsg(s, ok)
  \/ \E s \in Sockets, ok \in BOOLEAN : ActionMsg(s, ok)
  \/ \E s \in Sockets, ok \in BOOLEAN : ResizeMsg(s, ok)

\* The router for clients that init, send actions and leave, with the
\* action handlers overlapping as their awaits allow.  The clock stands
\* still, so no createBrowser call finds an instance older than itself.
NextActions ==
  \/ \E s \in Sockets, c \in CallIds : InitMsg(s, c)
  \/ \E c \in CallIds : LaunchDone(c)
  \/ \E c \in CallIds : LaunchFail(c)
  \/ \E s \in Sockets : Disconnect(s)
  \/ \E s \in Sockets : DisconnectDone(s)
  \/ \E s \in Sockets : ExecuteActionCall(s)
  \/ \E h \in executing, ok \in BOOLEAN : ExecuteActionReturn(h, ok)

(***************************************************************************)
(* streamingService.js, for one socket.  The router is kept to what the    *)
(* stream engine sees of it: whether the socket has a browser, and the     *)
(* init handlers that are still awaiting createBrowser.                    *)
(***************************************************************************)
DEFAULT_FPS == 30
MIN_FPS == 5
MAX_FPS == 60
KEYFRAME_INTERVAL == 10
MIN_QUALITY == 20
MAX_QUALITY == 95
DEFAULT_QUALITY == 80
LATENCY_THRESHOLD_HIGH == 200
LATENCY_THRESHOLD_MEDIUM == 100
\* if (now - settings.lastFrameTime > 1000) in the stream-control handler
RESTART_AFTER_MS == 1000

\* Bounds of the stream model
MaxMsgs == 2
MaxKeyframeCount == 3
StreamMaxTicks == 2

\* A field the client left out of a payload (undefined); client numbers are >= 0.
UNDEF == -1
LatencyInputs == {0, 50, 150, 250}
PresetNames == {"low", "medium", "high", "ultra"}
StreamTickSteps == {10, 1000}

\* detectDeviceType(userAgent) of the socket's handshake; socketService passes
\* no connectionQuality, so initializeStream always takes 'medium'.
DeviceType == "desktop"

\* qualityPresets
QualityPresets(p) ==
  CASE p = "low" -> [fps |-> 15, quality |-> 60, keyframeInterval |-> 15]
    [] p = "medium" -> [fps |-> 24, quality |-> 75, keyframeInterval |-> 10]
    [] p = "high" -> [fps |-> 30, quality |-> 85, keyframeInterval |-> 8]
    [] OTHER -> [fps |-> 60, quality |-> 90, keyframeInterval |-> 5]

\* calculateStreamSettings(connectionSpeed, deviceType)
CalculateStreamSettings(speed, device) ==
  LET base == CASE speed = "slow" -> [fps |-> 15, quality |-> 60, keyframeInterval |-> 15]
                [] speed = "medium" -> [fps |-> 24, quality |-> 75, keyframeInterval |-> 10]
                [] OTHER -> [fps |-> 30, quality |-> 85, keyframeInterval |-> 8]
      fps == IF device = "mobile" THEN Min(base.fps, 24)
             ELSE IF device = "desktop" /\ speed = "fast" THEN 60
             ELSE base.fps
      quality == IF device = "mobile" THEN base.quality - 5 ELSE base.quality
  IN [fps |-> fps, quality |-> quality, adaptiveBitrate |-> TRUE,
      keyframeInterval |-> base.keyframeInterval]

\* Math.min(MAX_FPS, Math.max(MIN_FPS, fps)) of initializeStream
InitClampFps(x) == Min(MAX_FPS, Max(MIN_FPS, x))
\* Math.min(MAX_QUALITY, Math.max(MIN_QUALITY, quality)) of initializeStream
InitClampQuality(x) == Min(MAX_QUALITY, Max(MIN_QUALITY, x))
\* Math.max(MIN_FPS, Math.min(MAX_FPS, settings.fps)) of the stream-settings handler
ClampFps(x) == Max(MIN_FPS, Min(MAX_FPS, x))
ClampQualityNoFloor(x) == Min(MAX_QUALITY, x)
\* Math.max(MIN_QUALITY, Math.min(MAX_QUALITY, settings.quality))
ClampQuality(x) == Max(MIN_QUALITY, Min(MAX_QUALITY, x))

NoFrame == [n |-> 0, isKeyframe |-> FALSE, quality |-> 0, reqQuality |-> 0,
            timestamp |-> 0, afterSettings |-> FALSE, paused |-> FALSE,
            afterResume |-> "no", afterInitAck |-> FALSE, nonKeyframes |-> 0]
NoAck == [msg |-> "none", n |-> 0]

InitStreamVars ==
  /\ heap = <<>>
  /\ clientStreams = 0
  /\ loops = <<>>
  /\ listeners = 0
  /\ mapped = FALSE
  /\ pending = <<>>
  /\ online = TRUE
  /\ msgs = 0
  /\ lastFrame = NoFrame
  /\ prevTimestamp = 0
  /\ settingsPending = FALSE
  /\ resumed = "no"
  /\ lastAck = NoAck
  /\ initAcked = FALSE

\* adjustQualityBasedOnLatency(settings)
AdjustQualityBasedOnLatency(o) ==
  IF o.latency = 0 THEN o
  ELSE IF o.latency > LATENCY_THRESHOLD_HIGH
  THEN [o EXCEPT
          !.quality = IF o.quality > MIN_QUALITY + 10
                      THEN Max(MIN_QUALITY, o.quality - 5) ELSE o.quality,
          !.fps = IF o.fps > MIN_FPS + 5 THEN Max(MIN_FPS, o.fps - 2) ELSE o.fps]
  ELSE IF o.latency > LATENCY_THRESHOLD_MEDIUM
  THEN [o EXCEPT
          !.quality = IF o.quality > MIN_QUALITY + 5
                      THEN Max(MIN_QUALITY, o.quality - 2) ELSE o.quality]
  ELSE [o EXCEPT
          !.quality = IF o.quality < DEFAULT_QUALITY
                      THEN Min(MAX_QUALITY, o.quality + 1) ELSE o.quality,
          !.fps = IF o.fps < DEFAULT_FPS THEN Min(DEFAULT_FPS, o.fps + 1) ELSE o.fps]

\* The adaptive step with a drop of 2 where the loop drops 5
AdaptQualityDropTwo(o, elapsed) ==
  IF o.adaptiveBitrate /\ elapsed > 0
  THEN IF 10000 < 9 * o.fps * elapsed /\ o.quality > 20
       THEN Max(20, o.quality - 2)
       ELSE IF 10000 > 11 * o.fps * elapsed /\ o.quality < 95
       THEN Min(95, o.quality + 2)
       ELSE o.quality
  ELSE o.quality

\* getNextFrame, the adaptive step: currentFps = 1000 / elapsed against
\* settings.fps * 0.9 and settings.fps * 1.1, in integers (elapsed > 0).
AdaptQuality(o, elapsed) ==
  IF o.adaptiveBitrate /\ elapsed > 0
  THEN IF 10000 < 9 * o.fps * elapsed /\ o.quality > 20
       THEN Max(20, o.quality - 5)
       ELSE IF 10000 > 11 * o.fps * elapsed /\ o.quality < 95
       THEN Min(95, o.quality + 2)
       ELSE o.quality
  ELSE o.quality

\* getNextFrame from its guard to the await of getScreenshot: the settings
\* object after it ...
IterateObj(o, t) ==
  [o EXCEPT !.quality = AdaptQuality(o, t - o.lastFrameTime),
            !.keyframeCount = o.keyframeCount + 1]

\* ... and the loop, suspended with its locals `now` and `isKeyframe`.
IterateLoop(i, o, t) ==
  [obj |-> i, isStreaming |-> TRUE, pc |-> "snapshot", now |-> t,
   isKeyframe |-> (o.keyframeCount % KEYFRAME_INTERVAL = 0),
   reqQuality |-> AdaptQuality(o, t - o.lastFrameTime)]

\* startStreamLoop(socket, settings) on the state st = [heap, loops]: the first
\* getNextFrame runs at once, and returns if the stream is not active.
StartStreamLoop(st, i, t) ==
  IF ~st.heap[i].active THEN st
  ELSE [heap |-> [st.heap EXCEPT ![i] = IterateObj(st.heap[i], t)],
        loops |-> Append(st.loops, IterateLoop(i, st.heap[i], t))]

\* initializeStream(socket, browserId, initialSettings)
InitializeStream(data) ==
  LET streamSettings == CalculateStreamSettings("medium", DeviceType)
      fps == IF data.fps # UNDEF /\ data.fps # 0 THEN data.fps ELSE streamSettings.fps
      quality == IF data.quality # UNDEF /\ data.quality # 0
                 THEN data.quality ELSE streamSettings.quality
      adaptiveBitrate == IF data.adaptiveBitrate # "undefined"
                         THEN data.adaptiveBitrate = "true"
                         ELSE streamSettings.adaptiveBitrate
      settings == [fps |-> InitClampFps(fps), quality |-> InitClampQuality(quality),
                   active |-> TRUE, adaptiveBitrate |-> adaptiveBitrate,
                   lastFrameTime |-> now, keyframeCount |-> 0, latency |-> 0,
                   connectionQuality |-> "medium"]
      i == Len(heap) + 1
      st == StartStreamLoop([heap |-> Append(heap, settings), loops |-> loops], i, now)
  IN /\ heap' = st.heap
     /\ loops' = st.loops
     /\ clientStreams' = i
     /\ listeners' = listeners + 1

\* init payloads: nothing supplied; out of range on both sides (the clamp
\* scenario of the specification); zeros with adaptation switched off
InitData ==
  {[fps |-> UNDEF, quality |-> UNDEF, adaptiveBitrate |-> "undefined"],
   [fps |-> 120, quality |-> 10, adaptiveBitrate |-> "undefined"],
   [fps |-> 0, quality |-> 0, adaptiveBitrate |-> "false"]}

\* callback(reply) of the handler of message msg
Ack(msg) == lastAck' = [msg |-> msg, n |-> 1]

\* An init handler that never reaches its callback
InitAckMissing == UNCHANGED <<initAcked, lastAck>>

\* callback({ success: true, browserId }) of the init handler
InitAck == initAcked' = TRUE /\ Ack("init")

\* The init handler: with a browser already mapped it runs through (ack, then
\* initializeStream); otherwise it awaits createBrowser.
StreamInitHandler(data) ==
  /\ IF mapped
     THEN /\ InitAck
          /\ InitializeStream(data)
          /\ UNCHANGED pending
     ELSE /\ pending' = Append(pending, data)
          /\ UNCHANGED <<heap, loops, clientStreams, listeners, initAcked, lastAck>>
  /\ UNCHANGED <<now, ticks, mapped, online, lastFrame, prevTimestamp, resumed,
                 settingsPending, poolVars, sessionVars, codecVars, routerVars, actionVars, securityVars>>

\* socket.on('init')
StreamInitMsg(data) ==
  /\ online
  /\ msgs < MaxMsgs
  /\ msgs' = msgs + 1
  /\ StreamInitHandler(data)

DropAt(q, k) == SubSeq(q, 1, k - 1) \o SubSeq(q, k + 1, Len(q))

\* createBrowser resolves for a waiting init handler, which maps the browser,
\* acks and calls initializeStream, also when the socket has gone meanwhile.
StreamInitResolve(k) ==
  /\ k \in 1..Len(pending)
  /\ mapped' = TRUE
  /\ InitAck
  /\ InitializeStream(pending[k])
  /\ pending' = DropAt(pending, k)
  /\ UNCHANGED <<now, ticks, online, msgs, lastFrame, prevTimestamp, resumed,
                 settingsPending, poolVars, sessionVars, codecVars, routerVars, actionVars, securityVars>>

\* createBrowser raises for a waiting init handler: {success:false}
StreamInitReject(k) ==
  /\ k \in 1..Len(pending)
  /\ pending' = DropAt(pending, k)
  /\ Ack("init")
  /\ UNCHANGED <<now, ticks, heap, clientStreams, loops, listeners, mapped, online,
                 msgs, lastFrame, prevTimestamp, settingsPending, resumed, initAcked,
                 poolVars, sessionVars, codecVars, routerVars, actionVars, securityVars>>

\* stream-settings payloads: one field in range; both fields above the range;
\* both below it with adaptation switched off; adaptation switched on
SettingsData ==
  {[fps |-> UNDEF, quality |-> 50, adaptiveBitrate |-> "undefined",
    connectionQuality |-> "undefined"],
   [fps |-> 120, quality |-> 100, adaptiveBitrate |-> "undefined",
    connectionQuality |-> "fast"],
   [fps |-> 0, quality |-> 10, adaptiveBitrate |-> "false",
    connectionQuality |-> "undefined"],
   [fps |-> UNDEF, quality |-> UNDEF, adaptiveBitrate |-> "true",
    connectionQuality |-> "slow"]}

\* The stream-settings listener of setupStreamListeners, on the settings object
\* (width and height are not modelled).
SettingsHandler(o, m) ==
  LET newFps == ClampFps(m.fps)
      newQuality == ClampQuality(m.quality)
  IN [o EXCEPT
        !.fps = IF m.fps # UNDEF /\ newFps # o.fps THEN newFps ELSE o.fps,
        !.quality = IF m.quality # UNDEF /\ newQuality # o.quality
                    THEN newQuality ELSE o.quality,
        !.adaptiveBitrate = IF m.adaptiveBitrate # "undefined"
                            THEN m.adaptiveBitrate = "true" ELSE o.adaptiveBitrate,
        !.connectionQuality = IF m.connectionQuality # "undefined"
                              THEN m.connectionQuality ELSE o.connectionQuality,
        !.keyframeCount = 0]

\* Every init registered the listeners once more: a message runs them all.
RECURSIVE SettingsHandlers(_, _, _)
SettingsHandlers(o, m, n) ==
  IF n = 0 THEN o ELSE SettingsHandlers(SettingsHandler(o, m), m, n - 1)

\* How often a stream-settings message's callback runs: once in the handler
\* of socketService (on either branch), and once in every stream-settings
\* listener of streamingService that finds the socket's settings.
SettingsAcks == 1 + (IF clientStreams # 0 THEN listeners ELSE 0)

\* The stream-settings-updated messages one stream-settings message m makes
\* the server emit, each with the stream state at the moment it is sent:
\* socketService, registered first, echoes the payload as it came when the
\* socket has a browser; then every stream-settings listener of
\* streamingService emits the settings it has just validated.
SettingsUpdatedMsgs(m) ==
  LET cur == heap[clientStreams]
      final == SettingsHandler(cur, m)
  IN (IF mapped
      THEN {[fps |-> m.fps, quality |-> m.quality,
             stateFps |-> IF clientStreams # 0 THEN cur.fps ELSE UNDEF,
             stateQuality |-> IF clientStreams # 0 THEN cur.quality ELSE UNDEF]}
      ELSE {})
     \cup
     (IF clientStreams # 0 /\ listeners > 0
      THEN {[fps |-> final.fps, quality |-> final.quality,
             stateFps |-> final.fps, stateQuality |-> final.quality]}
      ELSE {})

\* socket.on('stream-settings')
StreamSettingsMsg(m) ==
  /\ online
  /\ msgs < MaxMsgs
  /\ msgs' = msgs + 1
  /\ IF clientStreams # 0 /\ listeners > 0
     THEN /\ heap' = [heap EXCEPT ![clientStreams] = SettingsHandlers(@, m, listeners)]
          /\ settingsPending' = TRUE
     ELSE UNCHANGED <<heap, settingsPending>>
  /\ lastAck' = [msg |-> "stream-settings", n |-> SettingsAcks]
  /\ UNCHANGED <<now, ticks, clientStreams, loops, listeners, mapped, pending, online,
                 lastFrame, prevTimestamp, resumed, initAcked, poolVars, sessionVars, codecVars, routerVars, actionVars, securityVars>>

\* The stream-control listener, on st = [heap, loops]
ControlHandler(st, i, streaming, t) ==
  LET wasActive == st.heap[i].active
      st1 == [st EXCEPT !.heap[i].active = streaming]
  IN IF streaming /\ ~wasActive /\ t - st.heap[i].lastFrameTime > RESTART_AFTER_MS
     THEN StartStreamLoop(st1, i, t)
     ELSE st1

RECURSIVE ControlHandlers(_, _, _, _, _)
ControlHandlers(st, i, streaming, t, n) ==
  IF n = 0 THEN st
  ELSE ControlHandlers(ControlHandler(st, i, streaming, t), i, streaming, t, n - 1)

\* What a stream-control message leaves to wait for: a resume of a paused
\* stream, more than a second after settings.lastFrameTime ("stale") or not
\* ("fresh"); a pause ends the wait.
Resumed(streaming) ==
  IF clientStreams = 0 THEN resumed
  ELSE IF ~streaming THEN "no"
  ELSE IF heap[clientStreams].active THEN resumed
  ELSE IF now - heap[clientStreams].lastFrameTime > RESTART_AFTER_MS THEN "stale"
  ELSE "fresh"

\* How often a stream-control message's callback runs: once in every
\* stream-control listener (on either branch); socketService has no handler.
ControlAcks == listeners

\* The stream-control listeners, run for one message
StreamControlHandler(streaming) ==
  /\ IF clientStreams # 0
     THEN LET st == ControlHandlers([heap |-> heap, loops |-> loops], clientStreams,
                                    streaming, now, listeners)
          IN /\ \A i \in 1..Len(st.heap) : st.heap[i].keyframeCount <= MaxKeyframeCount
             /\ heap' = st.heap
             /\ loops' = st.loops
     ELSE UNCHANGED <<heap, loops>>
  /\ resumed' = Resumed(streaming)
  /\ lastAck' = [msg |-> "stream-control", n |-> ControlAcks]
  /\ UNCHANGED <<now, ticks, clientStreams, listeners, mapped, pending, online,
                 lastFrame, prevTimestamp, settingsPending, initAcked, poolVars,
                 sessionVars, codecVars, routerVars, actionVars, securityVars>>

\* socket.on('stream-control')
StreamControlMsg(streaming) ==
  /\ online
  /\ msgs < MaxMsgs
  /\ msgs' = msgs + 1
  /\ StreamControlHandler(streaming)

\* A latency-report listener that adjusts whatever adaptiveBitrate says
LatencyHandlerAlways(o, latency) ==
  LET o1 == [o EXCEPT !.latency = latency]
  IN IF o1.latency # 0 THEN AdjustQualityBasedOnLatency(o1) ELSE o1

\* The latency-report listener
LatencyHandler(o, latency) ==
  LET o1 == [o EXCEPT !.latency = latency]
  IN IF o1.adaptiveBitrate /\ o1.latency # 0 THEN AdjustQualityBasedOnLatency(o1) ELSE o1

RECURSIVE LatencyHandlers(_, _, _)
LatencyHandlers(o, latency, n) ==
  IF n = 0 THEN o ELSE LatencyHandlers(LatencyHandler(o, latency), latency, n - 1)

\* The latency-report listeners, run for one message
StreamLatencyHandler(latency) ==
  /\ IF clientStreams # 0
     THEN heap' = [heap EXCEPT ![clientStreams] = LatencyHandlers(@, latency, listeners)]
     ELSE UNCHANGED heap
  /\ UNCHANGED <<now, ticks, clientStreams, loops, listeners, mapped, pending, online,
                 lastFrame, prevTimestamp, settingsPending, resumed, lastAck,
                 initAcked, poolVars, sessionVars, codecVars, routerVars, actionVars, securityVars>>

\* socket.on('latency-report')
LatencyReportMsg(latency) ==
  /\ online
  /\ msgs < MaxMsgs
  /\ msgs' = msgs + 1
  /\ StreamLatencyHandler(latency)

\* applyQualityPreset(socketId, preset)
ApplyQualityPreset(preset) ==
  /\ msgs < MaxMsgs
  /\ msgs' = msgs + 1
  /\ clientStreams # 0
  /\ heap' = [heap EXCEPT ![clientStreams] =
                [@ EXCEPT !.fps = QualityPresets(preset).fps,
                          !.quality = QualityPresets(preset).quality,
                          !.keyframeCount = 0]]
  /\ UNCHANGED <<now, ticks, clientStreams, loops, listeners, mapped, pending, online,
                 lastFrame, prevTimestamp, settingsPending, resumed, lastAck,
                 initAcked, poolVars, sessionVars, codecVars, routerVars, actionVars, securityVars>>

\* The disconnect listeners: one per startStreamLoop (isStreaming = false) and
\* one per setupStreamListeners (clientStreams.delete).
StreamDisconnect ==
  /\ online
  /\ online' = FALSE
  /\ loops' = [k \in 1..Len(loops) |-> [loops[k] EXCEPT !.isStreaming = FALSE]]
  /\ clientStreams' = IF listeners > 0 THEN 0 ELSE clientStreams
  /\ UNCHANGED <<now, ticks, heap, listeners, mapped, pending, msgs, lastFrame,
                 prevTimestamp, settingsPending, resumed, lastAck, initAcked,
                 poolVars, sessionVars, codecVars, routerVars, actionVars, securityVars>>

\* setTimeout(getNextFrame, nextFrameTime) fires: the loop ends at the guard,
\* or runs to the await of getScreenshot (while keyframeCount < maxCount).
GetNextFrame(k, maxCount) ==
  /\ k \in 1..Len(loops)
  /\ loops[k].pc = "timer"
  /\ LET l == loops[k]
         o == heap[l.obj]
     IN IF ~l.isStreaming \/ ~o.active
        THEN /\ loops' = DropAt(loops, k)
             /\ UNCHANGED heap
        ELSE /\ o.keyframeCount < maxCount
             /\ heap' = [heap EXCEPT ![l.obj] = IterateObj(o, now)]
             /\ loops' = [loops EXCEPT ![k] = IterateLoop(l.obj, o, now)]
  /\ UNCHANGED <<now, ticks, clientStreams, listeners, mapped, pending, online, msgs,
                 lastFrame, prevTimestamp, settingsPending, resumed, lastAck,
                 initAcked, poolVars, sessionVars, codecVars, routerVars, actionVars, securityVars>>

TimerFire(k) == GetNextFrame(k, MaxKeyframeCount)

\* The socket's stream is paused: the last stream-control handled for its
\* settings object set active = false.
Paused == clientStreams # 0 /\ ~heap[clientStreams].active

\* How many frames in a row, this one included, went out as non-keyframes
\* since the last keyframe or settings change (counted up to
\* KEYFRAME_INTERVAL)
NonKeyframeRun(isKeyframe) ==
  IF isKeyframe THEN 0
  ELSE IF settingsPending THEN 1
  ELSE Min(lastFrame.nonKeyframes + 1, KEYFRAME_INTERVAL)

\* await getScreenshot(...) returns a screenshot (ok) or null; a frame goes out
\* while the socket is connected, and the next iteration is scheduled.
SnapshotReturn(k, ok) ==
  /\ k \in 1..Len(loops)
  /\ loops[k].pc = "snapshot"
  /\ LET l == loops[k]
         o == heap[l.obj]
     IN /\ loops' = [loops EXCEPT ![k].pc = "timer"]
        /\ IF ok
           THEN /\ heap' = [heap EXCEPT ![l.obj].lastFrameTime = l.now]
                /\ IF online
                   THEN /\ lastFrame' = [n |-> Min(lastFrame.n + 1, 2),
                                         isKeyframe |-> l.isKeyframe,
                                         quality |-> o.quality,
                                         reqQuality |-> l.reqQuality,
                                         timestamp |-> l.now,
                                         afterSettings |-> settingsPending,
                                         paused |-> Paused,
                                         afterResume |-> resumed,
                                         afterInitAck |-> initAcked,
                                         nonKeyframes |->
                                           NonKeyframeRun(l.isKeyframe)]
                        /\ prevTimestamp' = lastFrame.timestamp
                        /\ settingsPending' = FALSE
                        /\ resumed' = "no"
                   ELSE UNCHANGED <<lastFrame, prevTimestamp, settingsPending, resumed>>
           ELSE UNCHANGED <<heap, lastFrame, prevTimestamp, settingsPending, resumed>>
  /\ UNCHANGED <<now, ticks, clientStreams, listeners, mapped, pending, online, msgs,
                 lastAck, initAcked, poolVars, sessionVars, codecVars, routerVars, actionVars, securityVars>>

\* Date.now() advances.
StreamTick(d) ==
  /\ ticks < StreamMaxTicks
  /\ now' = now + d
  /\ ticks' = ticks + 1
  /\ UNCHANGED <<poolVars, streamVars, sessionVars, codecVars, routerVars, actionVars, securityVars>>

NextStream ==
  \/ \E data \in InitData : StreamInitMsg(data)
  \/ \E k \in 1..Len(pending) : StreamInitResolve(k)
  \/ \E k \in 1..Len(pending) : StreamInitReject(k)
  \/ \E m \in SettingsData : StreamSettingsMsg(m)
  \/ \E streaming \in BOOLEAN : StreamControlMsg(streaming)
  \/ \E latency \in LatencyInputs : LatencyReportMsg(latency)
  \/ \E preset \in PresetNames : ApplyQualityPreset(preset)
  \/ StreamDisconnect
  \/ \E k \in 1..Len(loops) : TimerFire(k)
  \/ \E k \in 1..Len(loops), ok \in BOOLEAN : SnapshotReturn(k, ok)
  \/ \E d \in StreamTickSteps : StreamTick(d)

(***************************************************************************)
(* Pause and resume: a client whose first message is init and whose other  *)
(* messages are stream-control, MaxControlMsgs in all, and a browser whose *)
(* snapshots succeed.                                                      *)
(***************************************************************************)
MaxControlMsgs == 3

\* socket.on('init'), the client's first message
ControlInitMsg(data) ==
  /\ online
  /\ msgs = 0
  /\ msgs' = msgs + 1
  /\ StreamInitHandler(data)

\* socket.on('stream-control')
ControlControlMsg(streaming) ==
  /\ online
  /\ msgs < MaxControlMsgs
  /\ msgs' = msgs + 1
  /\ StreamControlHandler(streaming)

NextControl ==
  \/ \E data \in InitData : ControlInitMsg(data)
  \/ \E k \in 1..Len(pending) : StreamInitResolve(k)
  \/ \E k \in 1..Len(pending) : StreamInitReject(k)
  \/ \E streaming \in BOOLEAN : ControlControlMsg(streaming)
  \/ StreamDisconnect
  \/ \E k \in 1..Len(loops) : TimerFire(k)
  \/ \E k \in 1..Len(loops) : SnapshotReturn(k, TRUE)
  \/ \E d \in StreamTickSteps : StreamTick(d)

(***************************************************************************)
(* Keyframe cadence: a client whose first message is init and which may    *)
(* then declare its connection class in one stream-settings message, and   *)
(* a producer loop that runs for MaxFrames iterations.                     *)
(***************************************************************************)
MaxFrames == 16

KeyframeTimerFire(k) == GetNextFrame(k, MaxFrames)

NextKeyframe ==
  \/ \E data \in InitData : ControlInitMsg(data)
  \/ \E k \in 1..Len(pending) : StreamInitResolve(k)
  \/ msgs >= 1 /\ \E m \in SettingsData : StreamSettingsMsg(m)
  \/ \E k \in 1..Len(loops) : KeyframeTimerFire(k)
  \/ \E k \in 1..Len(loops), ok \in BOOLEAN : SnapshotReturn(k, ok)

(***************************************************************************)
(* Latency adaptation: a client whose first message is an init with fps    *)
(* and quality anywhere in their ranges, followed by MaxReports latency    *)
(* reports.                                                                *)
(***************************************************************************)
MaxReports == 3

\* socket.on('init'), the client's first message
LatencyInitMsg(fps, quality) ==
  /\ online
  /\ msgs = 0
  /\ msgs' = msgs + 1
  /\ StreamInitHandler([fps |-> fps, quality |-> quality, adaptiveBitrate |-> "undefined"])

\* socket.on('latency-report')
LatencyLatencyMsg(latency) ==
  /\ online
  /\ msgs >= 1
  /\ msgs < MaxReports + 1
  /\ msgs' = msgs + 1
  /\ StreamLatencyHandler(latency)

NextLatency ==
  \/ /\ msgs = 0
     /\ \E fps \in MIN_FPS..MAX_FPS, quality \in MIN_QUALITY..MAX_QUALITY :
          LatencyInitMsg(fps, quality)
  \/ \E k \in 1..Len(pending) : StreamInitResolve(k)
  \/ \E latency \in LatencyInputs : LatencyLatencyMsg(latency)

(***************************************************************************)
(* Listener registration: a client that sends up to MaxMsgs init messages, *)
(* each of which registers the stream listeners again, and latency reports *)
(* and stream-control messages, MaxControlMsgs messages in all.           *)
(***************************************************************************)
NextListeners ==
  \/ \E data \in InitData : StreamInitMsg(data)
  \/ \E k \in 1..Len(pending) : StreamInitResolve(k)
  \/ msgs < MaxControlMsgs /\ \E latency \in LatencyInputs : LatencyLatencyMsg(latency)
  \/ \E streaming \in BOOLEAN : ControlControlMsg(streaming)
  \/ \E k \in 1..Len(loops) : TimerFire(k)
  \/ \E k \in 1..Len(loops) : SnapshotReturn(k, TRUE)
  \/ \E d \in StreamTickSteps : StreamTick(d)

(***************************************************************************)
(* sessionService.ts.  A call works on st = [sessions, tokenToSessionMap]  *)
(* and returns [st, value]; value is the session's id, 0 for null/false.   *)
(***************************************************************************)
SESSION_TIMEOUT == 7200000

\* Bound: how many sessions are ever created
MaxSessions == 2
SessionMaxTicks == 2

IpInputs == {"10.0.0.1", "10.0.0.2"}
UaInputs == {"", "Mozilla"}
\* ids and tokens a caller may present; 0 is the empty token
KeyInputs == 0..(2 * MaxSessions)
SessionTickSteps == {1, SESSION_TIMEOUT}

NoRet == [op |-> "none", value |-> 0, target |-> 0, expired |-> FALSE]

InitSessionVars ==
  /\ sessions = <<>>
  /\ tokenToSessionMap = <<>>
  /\ nextSessionUuid = 1
  /\ ret = NoRet

SessionState == [sessions |-> sessions, tokenToSessionMap |-> tokenToSessionMap]

\* createSession(options): uuidv4() gives the id, then the token
createSession(st, ipAddress, userAgent, t, uuid) ==
  LET sessionId == uuid
      sessionToken == uuid + 1
      session == [token |-> sessionToken, lastActivity |-> t, ipAddress |-> ipAddress,
                  userAgent |-> userAgent, browserId |-> 0]
  IN [st |-> [sessions |-> MapSet(st.sessions, sessionId, session),
              tokenToSessionMap |-> MapSet(st.tokenToSessionMap, sessionToken, sessionId)],
      value |-> sessionId]

\* getSession(idOrToken)
getSession(st, idOrToken, t) ==
  LET id == IF idOrToken \in DOMAIN st.tokenToSessionMap
            THEN st.tokenToSessionMap[idOrToken] ELSE idOrToken
  IN IF id \in DOMAIN st.sessions
     THEN [st |-> [st EXCEPT !.sessions[id].lastActivity = t], value |-> id]
     ELSE [st |-> st, value |-> 0]

\* updateSession(sessionId, {ipAddress, userAgent}): empty strings are falsy
updateSession(st, sessionId, ipAddress, userAgent, t) ==
  IF sessionId \notin DOMAIN st.sessions THEN [st |-> st, value |-> 0]
  ELSE [st |-> [st EXCEPT !.sessions[sessionId] =
                  [@ EXCEPT !.ipAddress = IF ipAddress # "" THEN ipAddress ELSE @,
                            !.userAgent = IF userAgent # "" THEN userAgent ELSE @,
                            !.lastActivity = t]],
        value |-> sessionId]

deleteSessionKeepToken(st, sessionId) ==
  IF sessionId \notin DOMAIN st.sessions THEN [st |-> st, value |-> 0]
  ELSE [st |-> [st EXCEPT !.sessions = MapDelete(st.sessions, sessionId)], value |-> 1]

\* deleteSession(sessionId)
deleteSession(st, sessionId) ==
  IF sessionId \notin DOMAIN st.sessions THEN [st |-> st, value |-> 0]
  ELSE [st |-> [sessions |-> MapDelete(st.sessions, sessionId),
                tokenToSessionMap |->
                  MapDelete(st.tokenToSessionMap, st.sessions[sessionId].token)],
        value |-> 1]

\* getOrCreateSession(idOrToken, options)
getOrCreateSession(st, idOrToken, ipAddress, userAgent, t, uuid) ==
  LET got == IF idOrToken # 0 THEN getSession(st, idOrToken, t)
             ELSE [st |-> st, value |-> 0]
  IN IF got.value # 0
     THEN LET session == got.st.sessions[got.value]
          IN IF session.ipAddress # ipAddress \/ session.userAgent # userAgent
             THEN updateSession(got.st, got.value, ipAddress, userAgent, t)
             ELSE got
     ELSE createSession(st, ipAddress, userAgent, t, uuid)

\* validateSession(token)
validateSession(st, token, t) ==
  LET got == getSession(st, token, t)
  IN IF got.value = 0 THEN got
     ELSE IF t - got.st.sessions[got.value].lastActivity > SESSION_TIMEOUT
     THEN [st |-> deleteSession(got.st, got.value).st, value |-> 0]
     ELSE got

\* updateSessionBrowserId(sessionId, browserId)
updateSessionBrowserId(st, sessionId, browserId, t) ==
  IF sessionId \notin DOMAIN st.sessions THEN [st |-> st, value |-> 0]
  ELSE [st |-> [st EXCEPT !.sessions[sessionId] =
                  [@ EXCEPT !.browserId = browserId, !.lastActivity = t]],
        value |-> 1]

\* cleanupInactiveSessions()
cleanupInactiveSessions(st, t) ==
  LET expired == {id \in DOMAIN st.sessions :
                    t - st.sessions[id].lastActivity > SESSION_TIMEOUT}
      tokens == {st.sessions[id].token : id \in expired}
  IN [st |-> [sessions |-> [id \in (DOMAIN st.sessions) \ expired |-> st.sessions[id]],
              tokenToSessionMap |->
                [k \in (DOMAIN st.tokenToSessionMap) \ tokens |-> st.tokenToSessionMap[k]]],
      value |-> Cardinality(expired)]

\* The session a key leads to, 0 if none
Target(key) ==
  LET id == IF key \in DOMAIN tokenToSessionMap THEN tokenToSessionMap[key] ELSE key
  IN IF id \in DOMAIN sessions THEN id ELSE 0

\* The session a key leads to is past its timeout (before the call touches it).
Expired(key) ==
  Target(key) # 0 /\ now - sessions[Target(key)].lastActivity > SESSION_TIMEOUT

\* uuidv4() is drawn at most 2 * MaxSessions times.
CanCreate == nextSessionUuid < 2 * MaxSessions

\* A call returns: the maps and the record of the call are stored.
Returns(op, arg, r) ==
  /\ sessions' = r.st.sessions
  /\ tokenToSessionMap' = r.st.tokenToSessionMap
  /\ (DOMAIN r.st.sessions) \ (DOMAIN sessions) # {} => CanCreate
  /\ ret' = [op |-> op, value |-> r.value, target |-> Target(arg),
             expired |-> Expired(arg)]
  /\ nextSessionUuid' = IF (DOMAIN r.st.sessions) \ (DOMAIN sessions) # {}
                        THEN nextSessionUuid + 2 ELSE nextSessionUuid
  /\ UNCHANGED <<now, ticks, poolVars, streamVars, codecVars, routerVars, actionVars, securityVars>>

CallCreateSession(ip, ua) ==
  Returns("createSession", 0, createSession(SessionState, ip, ua, now, nextSessionUuid))

CallGetSession(key) ==
  Returns("getSession", key, getSession(SessionState, key, now))

CallUpdateSession(id, ip, ua) ==
  Returns("updateSession", id, updateSession(SessionState, id, ip, ua, now))

CallDeleteSession(id) ==
  Returns("deleteSession", id, deleteSession(SessionState, id))

CallGetOrCreateSession(key, ip, ua) ==
  Returns("getOrCreateSession", key,
          getOrCreateSession(SessionState, key, ip, ua, now, nextSessionUuid))

CallValidateSession(key) ==
  Returns("validateSession", key, validateSession(SessionState, key, now))

CallUpdateSessionBrowserId(id, b) ==
  Returns("updateSessionBrowserId", id, updateSessionBrowserId(SessionState, id, b, now))

\* setInterval(cleanupInactiveSessions, SESSION_CLEANUP_INTERVAL) fires.
CallCleanupInactiveSessions ==
  Returns("cleanupInactiveSessions", 0, cleanupInactiveSessions(SessionState, now))

\* Date.now() advances.
SessionTick(d) ==
  /\ ticks < SessionMaxTicks
  /\ now' = now + d
  /\ ticks' = ticks + 1
  /\ UNCHANGED <<poolVars, streamVars, sessionVars, codecVars, routerVars, actionVars, securityVars>>

NextSession ==
  \/ \E ip \in IpInputs, ua \in UaInputs : CallCreateSession(ip, ua)
  \/ \E key \in KeyInputs : CallGetSession(key)
  \/ \E id \in KeyInputs, ip \in IpInputs \cup {""}, ua \in UaInputs :
       CallUpdateSession(id, ip, ua)
  \/ \E id \in KeyInputs : CallDeleteSession(id)
  \/ \E key \in KeyInputs, ip \in IpInputs, ua \in UaInputs :
       CallGetOrCreateSession(key, ip, ua)
  \/ \E key \in KeyInputs : CallValidateSession(key)
  \/ \E id \in KeyInputs, b \in {1} : CallUpdateSessionBrowserId(id, b)
  \/ CallCleanupInactiveSessions
  \/ \E d \in SessionTickSteps : SessionTick(d)

(***************************************************************************)
(* utils/compression: compressBase64 and decompressBase64.  A string is a  *)
(* sequence of characters; a character of the base64 alphabet is its       *)
(* 6-bit value 0..63, the other characters are PAD, COMMA and INVALID.       *)
(***************************************************************************)
\* Bounds: the length of the byte sequences and the byte values they hold
MaxLen == 3
ByteInputs == {0, 65, 255}

\* '='
PAD == 64
\* ','
COMMA == 65
\* ':' and ';'
INVALID == 66

\* "data:image/jpeg;base64," as getScreenshot prepends it
DataUrlPrefix ==
  <<29, 26, 45, 26, INVALID, 34, 38, 26, 32, 30, 63, 35, 41, 30, 32, INVALID,
    27, 26, 44, 30, 58, 56, COMMA>>

ByteSeqs == UNION {[1..n -> ByteInputs] : n \in 0..MaxLen}

\* buffer.toString('base64')
RECURSIVE Base64Encode(_)
Base64Encode(b) ==
  IF Len(b) = 0 THEN <<>>
  ELSE IF Len(b) = 1
  THEN <<b[1] \div 4, (b[1] % 4) * 16, PAD, PAD>>
  ELSE IF Len(b) = 2
  THEN <<b[1] \div 4, (b[1] % 4) * 16 + b[2] \div 16, (b[2] % 16) * 4, PAD>>
  ELSE <<b[1] \div 4, (b[1] % 4) * 16 + b[2] \div 16,
         (b[2] % 16) * 4 + b[3] \div 64, b[3] % 64>>
       \o Base64Encode(SubSeq(b, 4, Len(b)))

\* The characters of s that belong to the base64 alphabet, in order
RECURSIVE Sextets(_)
Sextets(s) ==
  IF Len(s) = 0 THEN <<>>
  ELSE (IF s[1] < PAD THEN <<s[1]>> ELSE <<>>) \o Sextets(SubSeq(s, 2, Len(s)))

RECURSIVE DecodeSextets(_)
DecodeSextets(s) ==
  IF Len(s) <= 1 THEN <<>>
  ELSE IF Len(s) = 2 THEN <<s[1] * 4 + s[2] \div 16>>
  ELSE IF Len(s) = 3
  THEN <<s[1] * 4 + s[2] \div 16, (s[2] % 16) * 16 + s[3] \div 4>>
  ELSE <<s[1] * 4 + s[2] \div 16, (s[2] % 16) * 16 + s[3] \div 4,
         (s[3] % 4) * 64 + s[4]>>
       \o DecodeSextets(SubSeq(s, 5, Len(s)))

\* Buffer.from(s, 'base64'): characters outside the alphabet are passed over
Base64Decode(s) == DecodeSextets(Sextets(s))

\* The index of the first comma of s, 0 if it has none
RECURSIVE IndexOfComma(_, _)
IndexOfComma(s, i) ==
  IF i > Len(s) THEN 0 ELSE IF s[i] = COMMA THEN i ELSE IndexOfComma(s, i + 1)

\* base64Data.split(',')[1] || base64Data
WithoutPrefix(s) ==
  LET i == IndexOfComma(s, 1)
      rest == SubSeq(s, i + 1, Len(s))
      j == IndexOfComma(rest, 1)
      second == IF j = 0 THEN rest ELSE SubSeq(rest, 1, j - 1)
  IN IF i = 0 \/ second = <<>> THEN s ELSE second

Checksum(b) == IF Len(b) = 0 THEN 1 ELSE (1 + b[1] + 2 * b[Len(b)] + Len(b)) % 256

\* compressData: pako's deflate, as a zlib stream (header, data, checksum)
CompressData(b) == <<120, 156>> \o b \o <<Checksum(b)>>

\* What a call that threw leaves in place of its result
Thrown == <<-1>>

\* decompressData: pako's inflate, which throws on a stream it cannot read
DecompressData(d) ==
  IF Len(d) >= 3 /\ d[1] = 120 /\ d[2] = 156
     /\ d[Len(d)] = Checksum(SubSeq(d, 3, Len(d) - 1))
  THEN SubSeq(d, 3, Len(d) - 1)
  ELSE Thrown

\* compressBase64(base64Data)
compressBase64(base64Data) ==
  Base64Encode(CompressData(Base64Decode(WithoutPrefix(base64Data))))

\* decompressBase64(compressedBase64), withPrefix = false
decompressBase64(compressedBase64) ==
  LET decompressed == DecompressData(Base64Decode(compressedBase64))
  IN IF decompressed = Thrown THEN Thrown ELSE Base64Encode(decompressed)

NoCodec == [pc |-> "idle", x |-> <<>>, payload |-> <<>>, out |-> <<>>]

\* A screenshot x reaches compressBase64 as base64(x), alone or behind the
\* data-URL prefix.
CodecInputs ==
  {[pc |-> "input", x |-> x, payload |-> pre \o Base64Encode(x), out |-> <<>>] :
     x \in ByteSeqs, pre \in {<<>>, DataUrlPrefix}}

\* The server compresses the payload of a frame.
Compress ==
  /\ codec.pc = "input"
  /\ codec' = [codec EXCEPT !.pc = "sent", !.out = compressBase64(codec.payload)]
  /\ UNCHANGED <<now, ticks, poolVars, streamVars, sessionVars, routerVars, actionVars, securityVars>>

\* The receiver decompresses it.
Decompress ==
  /\ codec.pc = "sent"
  /\ codec' = [codec EXCEPT !.pc = "done", !.out = decompressBase64(codec.out)]
  /\ UNCHANGED <<now, ticks, poolVars, streamVars, sessionVars, routerVars, actionVars, securityVars>>

NextCodec == Compress \/ Decompress

(***************************************************************************)
(* securityService.ts: rate limiting, with settings.rateLimiting.enabled   *)
(* at its value true.  The maps are total functions; NoEntry and NoBlock   *)
(* stand for a missing key.                                                *)
(***************************************************************************)
requestLimit == 100
timeWindow == 60000
blockDuration == 600000

\* Bounds: how many checkRateLimit calls are made in all, and clock steps
MaxChecks == 103
RateMaxTicks == 3
RateTickSteps == {1, timeWindow + 1, blockDuration}
\* The callers' addresses; both maps are keyed by ip and no operation reads
\* another ip's entry
RateIps == {"10.0.0.1"}

NoEntry == [count |-> 0, firstRequest |-> 0]
NoBlock == [blockedAt |-> 0, expiresAt |-> 0]
NoCheck == [n |-> 0, allowed |-> TRUE, at |-> 0]

InitSecurityVars ==
  /\ rateLimits = [ip \in RateIps |-> NoEntry]
  /\ blockedIPs = [ip \in RateIps |-> NoBlock]
  /\ ipBlockingEnabled = TRUE
  /\ lastCheck = [ip \in RateIps |-> NoCheck]
  /\ limitedAt = [ip \in RateIps |-> -1]

\* isIPBlocked(ip) on the map b at time t: the map after it, and its value
IsIPBlocked(b, ip, t) ==
  IF ~ipBlockingEnabled THEN [blockedIPs |-> b, value |-> FALSE]
  ELSE IF b[ip] = NoBlock THEN [blockedIPs |-> b, value |-> FALSE]
  ELSE IF b[ip].expiresAt # 0 /\ b[ip].expiresAt < t
       THEN [blockedIPs |-> [b EXCEPT ![ip] = NoBlock], value |-> FALSE]
       ELSE [blockedIPs |-> b, value |-> TRUE]

\* blockIP(ip, reason, expiresAt) at time t
BlockIP(b, ip, expiresAt, t) ==
  [b EXCEPT ![ip] = [blockedAt |-> t, expiresAt |-> expiresAt]]

\* checkRateLimit(ip)
CheckRateLimit(ip) ==
  /\ lastCheck[ip].n < MaxChecks
  /\ LET blk == IsIPBlocked(blockedIPs, ip, now)
         entry == rateLimits[ip]
         count == entry.count + 1
         allowed ==
           IF blk.value THEN FALSE
           ELSE IF entry = NoEntry \/ now - entry.firstRequest > timeWindow THEN TRUE
           ELSE count <= requestLimit
     IN /\ IF blk.value
           THEN UNCHANGED <<rateLimits, blockedIPs, limitedAt>>
           ELSE IF entry = NoEntry \/ now - entry.firstRequest > timeWindow
           THEN /\ rateLimits' = [rateLimits EXCEPT ![ip] =
                                    [count |-> 1, firstRequest |-> now]]
                /\ blockedIPs' = blk.blockedIPs
                /\ UNCHANGED limitedAt
           ELSE /\ rateLimits' = [rateLimits EXCEPT ![ip].count = count]
                /\ IF count > requestLimit
                   THEN /\ blockedIPs' = BlockIP(blk.blockedIPs, ip, now + blockDuration, now)
                        /\ limitedAt' = [limitedAt EXCEPT ![ip] = now]
                   ELSE /\ blockedIPs' = blk.blockedIPs
                        /\ UNCHANGED limitedAt
        /\ lastCheck' = [lastCheck EXCEPT ![ip] =
                           [n |-> @.n + 1, allowed |-> allowed, at |-> now]]
  /\ UNCHANGED <<now, ticks, ipBlockingEnabled, poolVars, streamVars, sessionVars,
                 codecVars, routerVars, actionVars>>

\* unblockIP(ip)
UnblockIP(ip) ==
  /\ blockedIPs[ip] # NoBlock
  /\ blockedIPs' = [blockedIPs EXCEPT ![ip] = NoBlock]
  /\ limitedAt' = [limitedAt EXCEPT ![ip] = -1]
  /\ UNCHANGED <<now, ticks, rateLimits, ipBlockingEnabled, lastCheck, poolVars,
                 streamVars, sessionVars, codecVars, routerVars, actionVars>>

\* updateSettings({ipBlocking: {enabled}})
UpdateSettings(enabled) ==
  /\ enabled # ipBlockingEnabled
  /\ ipBlockingEnabled' = enabled
  /\ UNCHANGED <<now, ticks, rateLimits, blockedIPs, lastCheck, limitedAt, poolVars,
                 streamVars, sessionVars, codecVars, routerVars, actionVars>>

\* cleanupExpiredBlocks, on its 15-minute interval
CleanupExpiredBlocks ==
  /\ \E ip \in RateIps : blockedIPs[ip] # NoBlock
  /\ blockedIPs' = [ip \in RateIps |->
                      IF blockedIPs[ip].expiresAt # 0 /\ blockedIPs[ip].expiresAt < now
                      THEN NoBlock ELSE blockedIPs[ip]]
  /\ UNCHANGED <<now, ticks, rateLimits, ipBlockingEnabled, lastCheck, limitedAt,
                 poolVars, streamVars, sessionVars, codecVars, routerVars, actionVars>>

\* Date.now() advances.
RateTick(d) ==
  /\ ticks < RateMaxTicks
  /\ now' = now + d
  /\ ticks' = ticks + 1
  /\ UNCHANGED <<poolVars, streamVars, sessionVars, codecVars, routerVars, actionVars,
                 securityVars>>

NextSecurity ==
  \/ \E ip \in RateIps : CheckRateLimit(ip)
  \/ \E ip \in RateIps : UnblockIP(ip)
  \/ \E enabled \in BOOLEAN : UpdateSettings(enabled)
  \/ CleanupExpiredBlocks
  \/ \E d \in RateTickSteps : RateTick(d)

(***************************************************************************)
(* The specifications                                                      *)
(***************************************************************************)
\* The state after the services are set up: empty maps, no socket has sent
\* anything.
Init ==
  /\ now = 0 /\ ticks = 0
  /\ InitPoolVars /\ InitStreamVars /\ InitSessionVars
  /\ codec = NoCodec
  /\ lastReply = NoReply
  /\ InitActionVars
  /\ InitSecurityVars

\* The services as above, and a payload handed to compressBase64
InitCodec ==
  /\ now = 0 /\ ticks = 0
  /\ InitPoolVars /\ InitStreamVars /\ InitSessionVars
  /\ codec \in CodecInputs
  /\ lastReply = NoReply
  /\ InitActionVars
  /\ InitSecurityVars

SpecPool == Init /\ [][NextPool]_vars
SpecRouter == Init /\ [][NextRouter]_vars
SpecActions == Init /\ [][NextActions]_vars
SpecKeyframe == Init /\ [][NextKeyframe]_vars
\* setInterval(cleanupInactiveBrowsers, 5 min) keeps firing, and the awaits of
\* a closeBrowser it started settle.
SpecPoolFair ==
  /\ SpecPool
  /\ WF_vars(CleanupInactiveBrowsers)
  /\ \A id \in BrowserIds : WF_vars(ReapDone(id))
SpecStream == Init /\ [][NextStream]_vars
SpecSession == Init /\ [][NextSession]_vars
SpecCodec == InitCodec /\ [][NextCodec]_vars
SpecLatency == Init /\ [][NextLatency]_vars
SpecListeners == Init /\ [][NextListeners]_vars
SpecSecurity == Init /\ [][NextSecurity]_vars
\* A timer set by setTimeout(getNextFrame, ...) fires, and the browser
\* returns the snapshot a loop awaits.
SpecControl ==
  /\ Init /\ [][NextControl]_vars
  /\ \A k \in 1..MaxControlMsgs :
       WF_vars(TimerFire(k)) /\ WF_vars(SnapshotReturn(k, TRUE))

(***************************************************************************)
(* Browser pool and socket router (SpecPool)                               *)
(***************************************************************************)

\* C1: in every reachable state the pool holds at most MAX_BROWSERS
\* instances, also when createBrowser calls overlap.
C1_PoolCapacity == Cardinality(DOMAIN activeBrowsers) <= MAX_BROWSERS

\* C2: a createBrowser call that finds the pool full closes an existing
\* instance before it launches, and the instance it closes is one with the
\* smallest lastActivity in the pool.
C2_EvictsLeastRecent ==
  \A c \in CallIds :
    (calls[c].wasFull /\ calls[c].pc \in {"evict", "launch", "done", "failed"})
      => calls[c].oldestId \in calls[c].lru

\* C3: however many init messages a socket sends, at most one browser is
\* created for it and all its successful init acks carry one browserId.
C3_InitIdempotent ==
  \A s \in Sockets : Cardinality(createdFor[s]) <= 1 /\ Cardinality(initAcks[s]) <= 1

\* C4: once a socket has disconnected and all its handlers have run to
\* their end, the socket has no entry in socketBrowserMap and no browser
\* created for it is left in the pool.
C4_DisconnectCleansUp ==
  \A s \in Sockets :
    (/\ ~connected[s]
     /\ disc[s].pc = "done"
     /\ \A c \in CallIds : calls[c].socket = s => calls[c].pc \in {"done", "failed"})
      => /\ socketBrowserMap[s] = 0
         /\ createdFor[s] \cap DOMAIN activeBrowsers = {}

\* An instance whose lastActivity is more than BROWSER_TIMEOUT in the past
Idle(id) ==
  id \in DOMAIN activeBrowsers /\ now - activeBrowsers[id].lastActivity > BROWSER_TIMEOUT

\* C11: an instance that has been idle for longer than BROWSER_TIMEOUT is
\* eventually removed from the pool by the reaper, unless its lastActivity is
\* refreshed first (fairness: the reaper's timer and its closeBrowser calls).
C11_IdleReaped == \A id \in BrowserIds : Idle(id) ~> ~Idle(id)

\* The clock is past the timeout and an instance has left the pool although
\* no createBrowser evicted and no socket disconnected: the reaper closed it.
C11_Witness ==
  /\ now > BROWSER_TIMEOUT
  /\ reaping = {}
  /\ \E id \in BrowserIds : id < nextUuid /\ id \notin DOMAIN activeBrowsers
  /\ \A c \in CallIds : calls[c].oldestId = 0
  /\ \A s \in Sockets : connected[s]

\* C21: every browserId the router holds for a connected socket is an
\* instance present in the pool: neither the eviction caused by another init
\* nor the idle reaper removes a connected socket's browser.
C21_SocketOwnsBrowser ==
  \A s \in Sockets :
    (connected[s] /\ socketBrowserMap[s] # 0)
      => socketBrowserMap[s] \in DOMAIN activeBrowsers

\* C28: every closeBrowser call that returns (to createBrowser's eviction, to
\* the disconnect handler, to the reaper) leaves its id out of the pool, also
\* when another closeBrowser for the same id has returned meanwhile; and a
\* closeBrowser for an id that is not in the pool leaves the pool as it is.
C28_ConcurrentCloseSafe ==
  [][/\ \A c \in CallIds :
          EvictDone(c) => calls[c].oldestId \notin DOMAIN activeBrowsers'
     /\ \A s \in Sockets :
          DisconnectDone(s) => disc[s].browserId \notin DOMAIN activeBrowsers'
     /\ \A id \in reaping :
          ReapDone(id) => id \notin DOMAIN activeBrowsers'
     /\ \A s \in Sockets :
          (Disconnect(s) /\ socketBrowserMap[s] \notin DOMAIN activeBrowsers)
            => activeBrowsers' = activeBrowsers]_vars

\* C28's case: of two overlapping closeBrowser calls for one id, started by
\* the reaper and by a disconnect or an eviction, one has returned and
\* removed the record while the reaper's is still in flight.
C28_Witness ==
  \E id \in reaping :
    /\ id \notin DOMAIN activeBrowsers
    /\ \/ \E s \in Sockets : disc[s] = [pc |-> "done", browserId |-> id]
       \/ \E c \in CallIds : calls[c].oldestId = id /\ calls[c].pc # "evict"

\* C35: a createBrowser call that failed (launch or the initial navigation
\* raised) has not evicted an instance of the pool: it chose no oldest
\* instance to close before launching.
C35_FailedCreateEvictsNothing ==
  \A c \in CallIds : CreateBrowserRaised(c) => calls[c].oldestId = 0

\* C36: the quality field of an emitted frame is the quality that was passed
\* to the snapshot request whose image the frame carries, whatever messages
\* were handled while the request was in flight.
C36_FrameQualityIsRequested ==
  lastFrame.n >= 1 => lastFrame.quality = lastFrame.reqQuality

\* C37: however many init messages the socket has sent, a latency-report
\* message changes the settings by one application of the latency-report
\* listener (a report above 200 ms: quality down by at most 5, fps by at most
\* 2), and a stream-control message changes settings and loops by one
\* application of the stream-control listener.
C37_OneApplicationPerMessage ==
  [][clientStreams # 0 =>
       /\ \A latency \in LatencyInputs :
            LatencyLatencyMsg(latency) =>
              /\ heap'[clientStreams] = LatencyHandler(heap[clientStreams], latency)
              /\ heap[clientStreams].quality - heap'[clientStreams].quality <= 5
              /\ heap[clientStreams].fps - heap'[clientStreams].fps <= 2
       /\ \A streaming \in BOOLEAN :
            ControlControlMsg(streaming) =>
              [heap |-> heap', loops |-> loops'] =
                ControlHandler([heap |-> heap, loops |-> loops], clientStreams,
                               streaming, now)]_vars

\* C38: while a settings object's adaptiveBitrate is false, a latency-report
\* message and an iteration of the producer loop leave its fps and quality
\* as they are; the only steps that change them are a stream-settings
\* message and applyQualityPreset.
C38_NoAdaptationWhenOff ==
  [][\A i \in 1..Len(heap) :
       ~heap[i].adaptiveBitrate =>
         LET same == /\ heap'[i].fps = heap[i].fps
                     /\ heap'[i].quality = heap[i].quality
         IN /\ (\E latency \in LatencyInputs : LatencyReportMsg(latency)) => same
            /\ (\E k \in 1..Len(loops) :
                  TimerFire(k) \/ \E ok \in BOOLEAN : SnapshotReturn(k, ok)) => same
            /\ ~same => \/ \E m \in SettingsData : StreamSettingsMsg(m)
                        \/ \E preset \in PresetNames : ApplyQualityPreset(preset)]_vars

\* C38's case: a stream with adaptiveBitrate false has taken a report of
\* 250 ms and its loop has run an iteration after a frame went out.
C38_Witness ==
  /\ clientStreams # 0
  /\ ~heap[clientStreams].adaptiveBitrate
  /\ heap[clientStreams].latency = 250
  /\ heap[clientStreams].keyframeCount = 2
  /\ now > heap[clientStreams].lastFrameTime

\* C39: of the frames one producer loop emits with no settings change in
\* between, at most KEYFRAME_INTERVAL - 1 in a row are non-keyframes, also
\* when snapshot requests return no image.
C39_KeyframeEveryInterval == lastFrame.nonKeyframes <= KEYFRAME_INTERVAL - 1

\* C40: after checkRateLimit has recorded a block for an IP that exceeded
\* requestLimit within a window, and with no unblockIP for it since, a
\* checkRateLimit for that IP is allowed only once blockDuration has passed
\* since the block was recorded, whatever ipBlocking.enabled is.
C40_BlockedForBlockDuration ==
  \A ip \in RateIps :
    (limitedAt[ip] >= 0 /\ lastCheck[ip].allowed)
      => lastCheck[ip].at >= limitedAt[ip] + blockDuration

\* C29: no operation of the pool raises an exception to its caller: a
\* failure comes back as a return value.  (close, snapshot, navigate, execute,
\* resize and currentUrl have no raising outcome in the model; create has.)
C29_PoolNeverRaises == \A c \in CallIds : ~CreateBrowserRaised(c)

\* C32: the page calls made for a socket's actions are made in the order in
\* which the action messages arrived, each on a browser created for that
\* socket, whatever the order in which the handlers' awaits return.
C32_ActionsInOrder ==
  \A s \in Sockets :
    /\ \A i \in 1..Len(issued[s]) : issued[s][i].browserId \in createdFor[s]
    /\ \A i, j \in 1..Len(issued[s]) : i < j => issued[s][i].n < issued[s][j].n

\* C32's case: two actions of a socket were issued, and the handler of the
\* second has returned while the first is still awaiting its page call.
C32_Witness ==
  \E s \in Sockets :
    /\ Len(issued[s]) = 2
    /\ executing = {[socket |-> s, n |-> issued[s][1].n]}

\* C33: no two sockets are mapped to the same browserId, and no page call
\* made for one socket's action goes to a browser that was created for,
\* and so ever mapped to, another socket.
C33_NoSharedBrowser ==
  \A s1, s2 \in Sockets :
    s1 # s2 =>
      /\ socketBrowserMap[s1] # 0 => socketBrowserMap[s1] # socketBrowserMap[s2]
      /\ \A i \in 1..Len(issued[s1]) : issued[s1][i].browserId \notin createdFor[s2]

\* C33's case: two sockets each have a browser and have each had an action
\* issued to it.
C33_Witness ==
  \A s \in Sockets : socketBrowserMap[s] # 0 /\ Len(issued[s]) >= 1

\* C34: a navigate whose navigateTo fails (page.goto raised, or the instance
\* is unknown) leaves the set of instances in the pool and the url recorded
\* for each of them as they were.
C34_FailedNavigateKeepsUrl ==
  [][\A s \in Sockets :
       ((\E ok \in BOOLEAN : NavigateMsg(s, ok)) /\ ~lastReply'.success)
         => /\ DOMAIN activeBrowsers' = DOMAIN activeBrowsers
            /\ \A id \in DOMAIN activeBrowsers :
                 activeBrowsers'[id].url = activeBrowsers[id].url]_vars

\* C34's case: a browser that had been navigated to url 1 has had a later
\* navigate fail in page.goto, and still records url 1.
C34_Witness ==
  /\ lastReply = [msg |-> "navigate", success |-> FALSE, error |-> FALSE]
  /\ \A s \in Sockets :
       /\ connected[s]
       /\ socketBrowserMap[s] \in DOMAIN activeBrowsers
       /\ activeBrowsers[socketBrowserMap[s]].url = 1

\* C20: a navigate, action or resize handler that fails (no browser for the
\* socket, unknown instance, or the page operation raised) sends an ack that
\* carries an error string beside success = false.
C20_FailureAckHasError ==
  (lastReply.msg # "none" /\ ~lastReply.success) => lastReply.error

\* C22: a navigate, action or resize that succeeds on a socket's instance
\* leaves that instance's lastActivity at the time of the call.
C22_SuccessTouchesActivity ==
  [][\A s \in Sockets :
       ((NavigateMsg(s, TRUE) \/ ActionMsg(s, TRUE) \/ ResizeMsg(s, TRUE))
          /\ lastReply'.success)
         => activeBrowsers'[socketBrowserMap[s]].lastActivity = now]_vars

(***************************************************************************)
(* Stream engine (SpecStream)                                              *)
(***************************************************************************)

\* C5: at most one producer loop of the socket is live (on its timer or
\* awaiting its snapshot) at any time.
C5_OneProducerLoop == Len(loops) <= 1

C7_KeyframeAfterSettings == lastFrame.afterSettings => lastFrame.isKeyframe

\* C8: the timestamps of the frames emitted to the socket never decrease.
C8_MonotoneTimestamps == lastFrame.n >= 2 => prevTimestamp <= lastFrame.timestamp

\* The value the specification takes for a field of the init payload: the
\* client's when one is supplied, otherwise the preset's.
ClientOrPreset(x, preset) == IF x # UNDEF THEN x ELSE preset

\* C24: the stream an init creates has the client's fps and quality where
\* the payload supplies them (0 and out-of-range values included), otherwise
\* the preset's, clamped to [MIN_FPS, MAX_FPS] and [MIN_QUALITY, MAX_QUALITY].
C24_InitOverrideThenClamp ==
  [][\A k \in 1..Len(pending) :
       StreamInitResolve(k)
         => LET d == pending[k]
                p == CalculateStreamSettings("medium", DeviceType)
                o == heap'[clientStreams']
            IN /\ o.fps = InitClampFps(ClientOrPreset(d.fps, p.fps))
               /\ o.quality = InitClampQuality(ClientOrPreset(d.quality, p.quality))]_vars

\* C25: with adaptive on, an iteration of the producer loop that starts
\* elapsed > 0 ms after the last frame lowers quality by 5 (not below
\* MIN_QUALITY) if 1000 / elapsed < 0.9 * fps and quality > MIN_QUALITY, else
\* raises it by 2 (not above MAX_QUALITY) if 1000 / elapsed > 1.1 * fps and
\* quality < MAX_QUALITY, else leaves it; fps is left as it is.
C25_AdaptiveStep ==
  [][\A k \in 1..Len(loops) :
       (TimerFire(k) /\ Len(loops') = Len(loops))
         => LET o == heap[loops[k].obj]
                o2 == heap'[loops[k].obj]
                elapsed == now - o.lastFrameTime
            IN (o.adaptiveBitrate /\ elapsed > 0)
                 => /\ o2.fps = o.fps
                    /\ o2.quality =
                         IF 1000 * 10 < 9 * o.fps * elapsed /\ o.quality > MIN_QUALITY
                         THEN Max(MIN_QUALITY, o.quality - 5)
                         ELSE IF 1000 * 10 > 11 * o.fps * elapsed
                                 /\ o.quality < MAX_QUALITY
                         THEN Min(MAX_QUALITY, o.quality + 2)
                         ELSE o.quality]_vars

\* C25's case: an iteration that started a second after the last frame of an
\* adaptive stream has lowered the preset quality 75 to 70.
C25_Witness ==
  \E k \in 1..Len(loops) :
    /\ loops[k].pc = "snapshot"
    /\ heap[loops[k].obj].adaptiveBitrate
    /\ loops[k].now - heap[loops[k].obj].lastFrameTime = 1000
    /\ heap[loops[k].obj].quality = 70
    /\ loops[k].reqQuality = 70

\* C26: every stream-settings-updated message sent to the client carries an
\* fps within [MIN_FPS, MAX_FPS] and a quality within [MIN_QUALITY,
\* MAX_QUALITY], both equal to the stream state at the moment it is sent.
C26_UpdatedCarriesFinalSettings ==
  [][\A m \in SettingsData :
       StreamSettingsMsg(m)
         => \A u \in SettingsUpdatedMsgs(m) :
              /\ u.fps \in MIN_FPS..MAX_FPS
              /\ u.quality \in MIN_QUALITY..MAX_QUALITY
              /\ u.fps = u.stateFps
              /\ u.quality = u.stateQuality]_vars

\* C27: once the socket has disconnected and no init handler is still
\* awaiting createBrowser, the socket has no entry in clientStreams and every
\* producer loop left has been told to stop (isStreaming = false), so that it
\* ends at its next guard.  No message reaches the handlers after the
\* disconnect, so a state that fails this is never left: the entry stays and
\* the loop keeps iterating.
C27_DisconnectStopsStream ==
  (~online /\ pending = <<>>)
    => /\ clientStreams = 0
       /\ \A k \in 1..Len(loops) : ~loops[k].isStreaming

\* C12: no frame is emitted to the socket while its stream is paused, that
\* is between the handling of stream-control{streaming:false} and the next
\* stream-control{streaming:true}.
C12_NoFrameWhilePaused == ~lastFrame.paused

\* C15: when the snapshot a producer loop awaits fails (getScreenshot returns
\* null: capture error or browser gone from the pool), that loop ends: it is
\* not scheduled again.
C15_FailedSnapshotEndsLoop ==
  [][\A k \in 1..Len(loops) : SnapshotReturn(k, FALSE) => Len(loops') < Len(loops)]_vars

\* C16: the callback of every message that has been handled (init,
\* stream-settings, stream-control) was invoked exactly once, whether the
\* message came before an init, after one, or after several.
C16_AckExactlyOnce == lastAck.msg # "none" => lastAck.n = 1

\* C19: whenever a frame is emitted to the socket, an init of that socket
\* has been acknowledged with {success:true} before.
C19_AckBeforeFirstFrame == lastFrame.n >= 1 => lastFrame.afterInitAck

\* The first frame has been emitted, after the ack of the init that started
\* the stream.
C19_Witness == lastFrame.n = 1 /\ initAcked /\ lastAck = [msg |-> "init", n |-> 1]

(***************************************************************************)
(* Pause and resume (SpecControl)                                          *)
(***************************************************************************)

\* The model stops a loop whose settings have counted MaxKeyframeCount frames.
Capped == \E i \in 1..Len(heap) : heap[i].keyframeCount >= MaxKeyframeCount

\* C23: with no settings change in between, the frame a producer loop
\* starts on when the keyframe counter is k is a keyframe exactly if
\* k mod KeyframeInterval = 0, KeyframeInterval being the value
\* calculateStreamSettings gives the stream's connection class (slow 15,
\* medium 10, fast 8).
C23_KeyframeCadence ==
  [][\A k \in 1..Len(loops) :
       (KeyframeTimerFire(k) /\ Len(loops') = Len(loops))
         => LET o == heap[loops[k].obj]
                interval == CalculateStreamSettings(o.connectionQuality,
                                                    DeviceType).keyframeInterval
            IN loops'[k].isKeyframe <=> (o.keyframeCount % interval = 0)]_vars

\* C13: after a paused stream has handled stream-control{streaming:true}, a
\* frame is eventually emitted to the socket (unless it disconnects or is
\* paused again), whether the resume came within a second of the last frame
\* or later.
C13_ResumeEmits ==
  (resumed # "no" /\ online) ~> (resumed = "no" \/ ~online \/ Capped)

\* C14: the first frame emitted after a resume that came more than one
\* second after the last frame is a keyframe.
C14_KeyframeAfterStaleResume == lastFrame.afterResume = "stale" => lastFrame.isKeyframe

(***************************************************************************)
(* Latency adaptation (SpecLatency)                                        *)
(***************************************************************************)

\* The latency table: what a report of latency l makes of a quality q ...
TableQuality(q, l) ==
  IF l > LATENCY_THRESHOLD_HIGH THEN Max(MIN_QUALITY, q - 5)
  ELSE IF l > LATENCY_THRESHOLD_MEDIUM THEN Max(MIN_QUALITY, q - 2)
  ELSE IF q < DEFAULT_QUALITY THEN q + 1 ELSE q

\* ... and of a frame rate f
TableFps(f, l) ==
  IF l > LATENCY_THRESHOLD_HIGH THEN Max(MIN_FPS, f - 2)
  ELSE IF l > LATENCY_THRESHOLD_MEDIUM THEN f
  ELSE IF f < DEFAULT_FPS THEN f + 1 ELSE f

\* C18: with adaptive on, a latency report (of a positive latency) changes
\* quality and fps as the latency table says, from every quality in
\* [MIN_QUALITY, MAX_QUALITY] and fps in [MIN_FPS, MAX_FPS]; three reports of
\* 250 ms are three such steps.
C18_LatencyTable ==
  [][\A l \in LatencyInputs \ {0} :
       (LatencyLatencyMsg(l) /\ clientStreams # 0 /\ heap[clientStreams].adaptiveBitrate)
         => /\ heap'[clientStreams].quality = TableQuality(heap[clientStreams].quality, l)
            /\ heap'[clientStreams].fps = TableFps(heap[clientStreams].fps, l)]_vars

(***************************************************************************)
(* Frame codec (SpecCodec)                                                 *)
(***************************************************************************)

\* C17: decompressBase64(compressBase64(p)) is base64(x), for every byte
\* sequence x, the empty one included, and for p = base64(x) alone or behind
\* a data-URL prefix.
C17_CodecRoundTrip == codec.pc = "done" => codec.out = Base64Encode(codec.x)

(***************************************************************************)
(* Session binder (SpecSession)                                            *)
(***************************************************************************)

\* C9: tokenToSessionMap is a bijection onto the live sessions: every
\* session's token maps to its id, and every token entry names a live
\* session that has this token.
C9_TokenIndexBijective ==
  /\ \A id \in DOMAIN sessions :
       /\ sessions[id].token \in DOMAIN tokenToSessionMap
       /\ tokenToSessionMap[sessions[id].token] = id
  /\ \A k \in DOMAIN tokenToSessionMap :
       /\ tokenToSessionMap[k] \in DOMAIN sessions
       /\ sessions[tokenToSessionMap[k]].token = k

\* Two sessions were created and deleteSession has just removed one of them.
C9_Witness ==
  /\ ret.op = "deleteSession" /\ ret.value = 1
  /\ nextSessionUuid = 5
  /\ Cardinality(DOMAIN sessions) = 1

\* C30: a getOrCreateSession call whose key leads to an existing session
\* creates no session and returns that session with ipAddress and userAgent
\* equal to the values supplied, an empty user-agent string included.
C30_GetOrCreateRefreshes ==
  [][\A key \in KeyInputs, ip \in IpInputs, ua \in UaInputs :
       (CallGetOrCreateSession(key, ip, ua) /\ Target(key) # 0)
         => /\ DOMAIN sessions' = DOMAIN sessions
            /\ ret'.value = Target(key)
            /\ sessions'[Target(key)].ipAddress = ip
            /\ sessions'[Target(key)].userAgent = ua]_vars

\* C31: getSession and getOrCreateSession never return a session whose
\* last activity was more than SESSION_TIMEOUT before the call, also when the
\* reaper has not yet removed it: the key of an expired session yields no
\* session or a fresh one.
C31_ExpiredNeverReturned ==
  (ret.op \in {"getSession", "getOrCreateSession"} /\ ret.expired)
    => ret.value # ret.target

\* C10: validateSession, called with the token of a session whose last
\* activity is more than SESSION_TIMEOUT in the past, returns null and
\* removes the session and its token entry.
C10_ValidateExpires ==
  (ret.op = "validateSession" /\ ret.expired)
    => /\ ret.value = 0
       /\ ret.target \notin DOMAIN sessions
       /\ \A k \in DOMAIN tokenToSessionMap : tokenToSessionMap[k] # ret.target

====
